---- MODULE Spec2Model ----
(***************************************************************************)
(* Lorentz force visualizer: the simulation state of the sketch script     *)
(* (particles, fields, clock, trail), the operations the UI calls on it,   *)
(* the UI handlers and the scene / remote-result operations of api.js.     *)
(*                                                                         *)
(* JavaScript numbers are modelled as exact extended rationals <<n, d>>:   *)
(* d > 0 is the fraction n/d in lowest terms, <<1,0>> is Infinity,         *)
(* <<-1,0>> is -Infinity, <<0,0>> is NaN and <<0,-1>> is null/undefined.   *)
(* Rounding and the sign of zero are not modelled.                         *)
(***************************************************************************)
EXTENDS Integers, Sequences, FiniteSets, TLC

\* ------------------------------------------------------------------ bounds
\* the number of operations a run performs
MaxOps == 5
\* the number of operations of a run that starts from a drawn particle
MaxStepOps == 3

\* --------------------------------------------------------- program constants
CANVAS_WIDTH == 900
CANVAS_HEIGHT == 700
SCALE == 28
FRAME_RATE == 60
DEFAULT_TRAIL_LENGTH == 200
SLIDER_FULL == 1000

\* ------------------------------------------------------------ JS numbers
Abs(n) == IF n < 0 THEN -n ELSE n
Sign(n) == IF n < 0 THEN -1 ELSE IF n > 0 THEN 1 ELSE 0

RECURSIVE GCD(_, _)
GCD(a, b) == IF b = 0 THEN a ELSE GCD(b, a % b)

Norm(n, d) ==
    IF d = 0 THEN <<Sign(n), 0>>
    ELSE LET s == IF d < 0 THEN -1 ELSE 1
             g == GCD(Abs(n), Abs(d))
         IN  <<(s * n) \div g, (s * d) \div g>>

R(n) == <<n, 1>>
Frac(n, d) == Norm(n, d)
Zero == <<0, 1>>
One == <<1, 1>>
Inf == <<1, 0>>
NegInf == <<-1, 0>>
NaN == <<0, 0>>
Null == <<0, -1>>

IsNull(a) == a[2] < 0
IsNaN(a) == a = NaN
IsInf(a) == a[2] = 0 /\ a[1] # 0
IsFinite(a) == a[2] > 0

\* ToNumber: null converts to 0 in arithmetic
ToNum(a) == IF IsNull(a) THEN Zero ELSE a

RAddN(a, b) ==
    IF IsNaN(a) \/ IsNaN(b) THEN NaN
    ELSE IF IsInf(a) THEN (IF IsInf(b) /\ b # a THEN NaN ELSE a)
    ELSE IF IsInf(b) THEN b
    ELSE LET g == GCD(a[2], b[2])
         IN  Norm(a[1] * (b[2] \div g) + b[1] * (a[2] \div g), (a[2] \div g) * b[2])
RAdd(a, b) == RAddN(ToNum(a), ToNum(b))

RNeg(a) == LET x == ToNum(a) IN <<-x[1], x[2]>>
RSub(a, b) == RAdd(a, RNeg(b))

RMulN(a, b) ==
    IF a[2] = 0 \/ b[2] = 0 THEN Norm(a[1] * b[1], 0)
    ELSE LET g1 == GCD(Abs(a[1]), b[2])
             g2 == GCD(Abs(b[1]), a[2])
         IN  Norm((a[1] \div g1) * (b[1] \div g2), (a[2] \div g2) * (b[2] \div g1))
RMul(a, b) == RMulN(ToNum(a), ToNum(b))

RInv(a) == LET x == ToNum(a) IN IF x[1] < 0 THEN <<-x[2], -x[1]>> ELSE <<x[2], x[1]>>
RDiv(a, b) == RMul(a, RInv(b))

\* a < b as JavaScript compares numbers: false when either side is NaN
RLessN(a, b) ==
    IF IsNaN(a) \/ IsNaN(b) \/ a = b THEN FALSE
    ELSE IF a = NegInf \/ b = Inf THEN TRUE
    ELSE IF a = Inf \/ b = NegInf THEN FALSE
    ELSE a[1] * b[2] < b[1] * a[2]
RLess(a, b) == RLessN(ToNum(a), ToNum(b))
RGreater(a, b) == RLess(b, a)
RLeq(a, b) == RLess(a, b) \/ (ToNum(a) = ToNum(b) /\ ~IsNaN(ToNum(a)))

\* JavaScript truthiness of a number-or-null: 0, NaN, null and undefined are falsy
Falsy(a) == IsNull(a) \/ a = Zero \/ IsNaN(a)
\* a || b
OrElse(a, b) == IF Falsy(a) THEN b ELSE a

\* Math.cos / Math.sin of angle_deg * Math.PI / 180 on the quarter turns (the
\* residues of order 1e-16 that floating point leaves at 90, 180, 270 are dropped)
CosDeg(a) == CASE a = 0 -> One [] a = 90 -> Zero [] a = 180 -> R(-1) [] a = 270 -> Zero
SinDeg(a) == CASE a = 0 -> Zero [] a = 90 -> One [] a = 180 -> Zero [] a = 270 -> R(-1)

\* -------------------------------------------------------------------- state
VARIABLES
    particles,          \* the particle collection, in insertion order
    particleIdCounter,  \* the next n of the id `p${n}`
    simulationTime,
    isPlaying,
    timeScale,
    trailLength,        \* a number, Inf for the "Full" setting
    electricField,      \* [magnitude, angle_deg]
    magneticField,      \* [magnitude, angle_deg]
    sceneFile,          \* the document exportScene downloaded last, <<>> before any
    exportedState,      \* history: the state exportScene serialized into sceneFile
    lastOp,             \* history: the operation that produced this state
    opCount,            \* history: operations performed so far (bounds the run)
    hist,               \* history: per particle, the post-step positions since its
                        \* trail was last empty, whether trailLength stayed fixed,
                        \* and whether the object was in the last snapshot sent
    pending,            \* runLongSimulation awaiting its response: <<>>, or the
                        \* set of particle ids in the request in flight
    lastResults         \* history: <<results>> when this state was produced by
                        \* applySimulationResults(results), <<>> otherwise

vars == <<particles, particleIdCounter, simulationTime, isPlaying, timeScale,
          trailLength, electricField, magneticField, sceneFile, exportedState, lastOp,
          opCount, hist, pending, lastResults>>

Field(mag, ang) == [magnitude |-> mag, angle_deg |-> ang]
Point(px, py) == [x |-> px, y |-> py]

screenToWorld(sx, sy) ==
    Point(RDiv(RSub(sx, RDiv(R(CANVAS_WIDTH), R(2))), R(SCALE)),
          RDiv(RSub(RDiv(R(CANVAS_HEIGHT), R(2)), sy), R(SCALE)))

\* new Particle(id, q, m, x, y, vx, vy)
Particle(id, q, m, x, y, vx, vy) ==
    [id |-> id, q |-> q, m |-> m, x |-> x, y |-> y, vx |-> vx, vy |-> vy,
     trail |-> <<>>, selected |-> FALSE]

\* Particle.calculateForce, on the charge and velocity of `this`
calculateForce(q, vx, vy, E, B) ==
    LET Ex == RMul(E.magnitude, CosDeg(E.angle_deg))
        Ey == RMul(E.magnitude, SinDeg(E.angle_deg))
        Bz == IF B.angle_deg = 90 THEN B.magnitude ELSE RNeg(B.magnitude)
    IN  [Fx |-> RMul(q, RAdd(Ex, RMul(vy, Bz))),
         Fy |-> RMul(q, RSub(Ey, RMul(vx, Bz)))]

\* mutant of pushTrail: the oldest entry is dropped already at the limit
pushTrailEager(trail, pos, tl) ==
    IF ~RLess(R(Len(trail) + 1), tl) THEN Tail(Append(trail, pos)) ELSE Append(trail, pos)

\* this.trail.push(pos); if (this.trail.length > trailLength) this.trail.shift()
pushTrail(trail, pos, tl) ==
    LET pushed == Append(trail, pos)
    IN  IF RGreater(R(Len(pushed)), tl) THEN Tail(pushed) ELSE pushed

\* one stage of update: the acceleration F / m of particle p at velocity (vx, vy)
accel(p, vx, vy, E, B) ==
    [ax |-> RDiv(calculateForce(p.q, vx, vy, E, B).Fx, p.m),
     ay |-> RDiv(calculateForce(p.q, vx, vy, E, B).Fy, p.m)]

\* mutant of updateWith: the position advances with the velocity before the step
updateWithOldVelocity(p, dt, tl, ax, ay) ==
    [p EXCEPT !.vx = RAdd(p.vx, RMul(ax, dt)),
              !.vy = RAdd(p.vy, RMul(ay, dt)),
              !.x = RAdd(p.x, RMul(p.vx, dt)),
              !.y = RAdd(p.y, RMul(p.vy, dt)),
              !.trail = pushTrail(p.trail,
                                  Point(RAdd(p.x, RMul(p.vx, dt)), RAdd(p.y, RMul(p.vy, dt))),
                                  tl)]

\* the closing block of update: blend, move, record
updateWith(p, dt, tl, ax, ay) ==
    [p EXCEPT !.vx = RAdd(p.vx, RMul(ax, dt)),
              !.vy = RAdd(p.vy, RMul(ay, dt)),
              !.x = RAdd(p.x, RMul(RAdd(p.vx, RMul(ax, dt)), dt)),
              !.y = RAdd(p.y, RMul(RAdd(p.vy, RMul(ay, dt)), dt)),
              !.trail = pushTrail(p.trail,
                                  Point(RAdd(p.x, RMul(RAdd(p.vx, RMul(ax, dt)), dt)),
                                        RAdd(p.y, RMul(RAdd(p.vy, RMul(ay, dt)), dt))),
                                  tl)]

updateK4(p, dt, E, B, tl, k1, k2, k3, k4) ==
    updateWith(p, dt, tl,
        RDiv(RAdd(RAdd(k1.ax, RMul(R(2), k2.ax)), RAdd(RMul(R(2), k3.ax), k4.ax)), R(6)),
        RDiv(RAdd(RAdd(k1.ay, RMul(R(2), k2.ay)), RAdd(RMul(R(2), k3.ay), k4.ay)), R(6)))

updateK3(p, dt, E, B, tl, k1, k2, k3) ==
    updateK4(p, dt, E, B, tl, k1, k2, k3,
             accel(p, RAdd(p.vx, RMul(k3.ax, dt)), RAdd(p.vy, RMul(k3.ay, dt)), E, B))

updateK2(p, dt, E, B, tl, k1, k2) ==
    updateK3(p, dt, E, B, tl, k1, k2,
             accel(p, RAdd(p.vx, RDiv(RMul(k2.ax, dt), R(2))),
                      RAdd(p.vy, RDiv(RMul(k2.ay, dt), R(2))), E, B))

updateK1(p, dt, E, B, tl, k1) ==
    updateK2(p, dt, E, B, tl, k1,
             accel(p, RAdd(p.vx, RDiv(RMul(k1.ax, dt), R(2))),
                      RAdd(p.vy, RDiv(RMul(k1.ay, dt), R(2))), E, B))

\* mutant of update: the step rebuilds the particle and drops its selection
updateDeselected(p, dt, E, B, tl) ==
    [updateK1(p, dt, E, B, tl, accel(p, p.vx, p.vy, E, B)) EXCEPT !.selected = FALSE]

\* Particle.update(dt, E, B), reading the global trailLength tl; the stages
\* k1..k4 are passed down so that each is computed once
update(p, dt, E, B, tl) == updateK1(p, dt, E, B, tl, accel(p, p.vx, p.vy, E, B))

\* mutant of frameDt: the frame duration with its sign flipped
frameDtBackwards(ts) == RMul(RDiv(R(-1), R(FRAME_RATE)), ts)

\* const dt = (1 / 60) * timeScale
frameDt(ts) == RMul(RDiv(One, R(FRAME_RATE)), ts)

\* mutant of updateAll: the loop stops one particle short
updateAllButLast(ps, dt, E, B, tl) ==
    [i \in 1..Len(ps) |-> IF i < Len(ps) THEN update(ps[i], dt, E, B, tl) ELSE ps[i]]

\* for (let particle of particles) particle.update(dt, electricField, magneticField)
updateAll(ps, dt, E, B, tl) == [i \in 1..Len(ps) |-> update(ps[i], dt, E, B, tl)]

\* ------------------------------------------------------------------ inputs
Charges == {R(1)}
Masses == {R(1), R(-1)}
BoxMasses == {R(1), R(0), NaN}        \* what the mass input box can hold
Velocities == {R(1)}
InputE == {Field(Zero, 0), Field(R(120), 0)}
InputB == {Field(R(120), 90), Field(R(120), 270)}
InputTimeScale == {R(2)}
SliderValues == {1, SLIDER_FULL}   \* positions of the trail-length slider

PData(id, q, m, x, y, vx, vy) ==
    [id |-> id, q |-> q, m |-> m, x |-> x, y |-> y, vx |-> vx, vy |-> vy]

Scene(hasE, hasB, hasParticles, E, B, ps, st, ts, tl) ==
    [hasE |-> hasE, hasB |-> hasB, hasParticles |-> hasParticles, E |-> E, B |-> B,
     particles |-> ps, simulationTime |-> st, timeScale |-> ts, trailLength |-> tl]

\* scene documents a user may load: two well-formed ones and three with a
\* required field missing
SceneGood == Scene(TRUE, TRUE, TRUE, Field(R(120), 0), Field(Zero, 90),
                   <<PData(0, R(1), R(1), R(1), Zero, Zero, R(1))>>,
                   Frac(1, 60), Null, R(2))
SceneOdd == Scene(TRUE, TRUE, TRUE, Field(Zero, 0), Field(R(120), 270),
                  <<PData(0, R(1), R(0), Zero, Zero, R(1), Zero)>>,
                  Null, R(-1), Null)
SceneNoE == Scene(FALSE, TRUE, TRUE, Field(R(120), 0), Field(R(120), 270),
                  <<PData(0, R(1), R(1), Zero, Zero, R(1), Zero)>>, Zero, R(2), R(1))
SceneNoB == [SceneNoE EXCEPT !.hasE = TRUE, !.hasB = FALSE]
SceneNoParticles == [SceneNoE EXCEPT !.hasE = TRUE, !.hasParticles = FALSE]
InputScenes == {SceneGood, SceneOdd, SceneNoE, SceneNoB, SceneNoParticles}

\* results of the remote simulation: absent, or per particle id the sampled
\* x, y, vx, vy arrays
Samples(xs, ys, vxs, vys) == [x |-> xs, y |-> ys, vx |-> vxs, vy |-> vys]
SamplesFor(id) ==
    Samples(<<R(id + 1), R(id + 2), R(id + 3)>>, <<Zero, Zero, R(1)>>,
            <<R(1), R(1), R(1)>>, <<Zero, R(1), R(1)>>)
NoResults == [hasData |-> FALSE, ids |-> {}, data |-> <<>>]
Results(ids) == [hasData |-> TRUE, ids |-> ids, data |-> [id \in ids |-> SamplesFor(id)]]
InputResults == {NoResults, Results({0}), Results({1, 7})}

\* screen points clicked: the centre of the canvas, where particles are spawned
InputClicks == {<<CANVAS_WIDTH \div 2, CANVAS_HEIGHT \div 2>>}

\* ----------------------------------------------------------------- history
NewHist == [pos |-> <<>>, fixed |-> TRUE, snapshot |-> FALSE]
PosOf(p) == Point(p.x, p.y)

\* --------------------------------------------------------------------- Init
Init ==
    /\ particles = <<>>
    /\ particleIdCounter = 0
    /\ simulationTime = Zero
    /\ isPlaying = FALSE
    /\ timeScale = One
    /\ trailLength = R(DEFAULT_TRAIL_LENGTH)
    /\ electricField = Field(Zero, 0)
    /\ magneticField = Field(Zero, 90)
    /\ sceneFile = <<>>
    /\ exportedState = <<>>
    /\ lastOp = "init"
    /\ opCount = 0
    /\ hist = <<>>
    /\ pending = <<>>
    /\ lastResults = <<>>

\* -------------------------------------------------------------- operations
\* history bookkeeping shared by the operations that do not touch the trails
Keep(op) ==
    /\ lastOp' = op
    /\ UNCHANGED <<sceneFile, exportedState>>

\* addParticle(q, m, vx, vy): the collection after the push
addParticleTo(ps, ctr, q, m, vx, vy) ==
    LET worldPos == screenToWorld(RDiv(R(CANVAS_WIDTH), R(2)), RDiv(R(CANVAS_HEIGHT), R(2)))
    IN  Append(ps, Particle(ctr, q, m, worldPos.x, worldPos.y, vx, vy))

addParticle(q, m, vx, vy) ==
    /\ particles' = addParticleTo(particles, particleIdCounter, q, m, vx, vy)
    /\ particleIdCounter' = particleIdCounter + 1
    /\ hist' = Append(hist, NewHist)
    /\ Keep("addParticle")
    /\ UNCHANGED <<simulationTime, isPlaying, timeScale, trailLength,
                   electricField, magneticField>>

\* the add-particle button: the inputs the handler lets through to addParticle
clickAccepts(q, m, vx, vy) ==
    /\ ~(IsNaN(q) \/ IsNaN(m) \/ IsNaN(vx) \/ IsNaN(vy))
    /\ ~RLeq(m, Zero)

addParticleClick(q, m, vx, vy) ==
    IF clickAccepts(q, m, vx, vy)
    THEN /\ particles' = addParticleTo(particles, particleIdCounter, q, m, vx, vy)
         /\ particleIdCounter' = particleIdCounter + 1
         /\ hist' = Append(hist, NewHist)
         /\ Keep("addParticleClick")
         /\ UNCHANGED <<simulationTime, isPlaying, timeScale, trailLength,
                        electricField, magneticField>>
    ELSE /\ Keep("addParticleRejected")
         /\ UNCHANGED <<particles, particleIdCounter, hist, simulationTime, isPlaying,
                        timeScale, trailLength, electricField, magneticField>>

clearParticles ==
    /\ particles' = <<>>
    /\ particleIdCounter' = 0
    /\ hist' = <<>>
    /\ Keep("clearParticles")
    /\ UNCHANGED <<simulationTime, isPlaying, timeScale, trailLength,
                   electricField, magneticField>>

\* mutant of clearTrails: the reset also stops every particle
clearTrailsAndStop(ps) ==
    [i \in 1..Len(ps) |-> [ps[i] EXCEPT !.trail = <<>>, !.vx = Zero, !.vy = Zero]]

\* particles.forEach(p => { p.trail = []; })
clearTrails(ps) == [i \in 1..Len(ps) |-> [ps[i] EXCEPT !.trail = <<>>]]

resetSimulation ==
    /\ particles' = clearTrails(particles)
    /\ simulationTime' = Zero
    /\ hist' = [i \in 1..Len(particles) |-> [hist[i] EXCEPT !.pos = <<>>, !.fixed = TRUE]]
    /\ Keep("resetSimulation")
    /\ UNCHANGED <<particleIdCounter, isPlaying, timeScale, trailLength,
                   electricField, magneticField>>

togglePlayPause ==
    /\ isPlaying' = ~isPlaying
    /\ Keep("togglePlayPause")
    /\ UNCHANGED <<particles, particleIdCounter, hist, simulationTime, timeScale,
                   trailLength, electricField, magneticField>>

\* the history of a pass of the integrator over the collection
StepHist(ps) == [i \in 1..Len(ps) |-> [hist[i] EXCEPT !.pos = Append(@, PosOf(ps[i]))]]

\* mutant of stepSimulation: the manual step is ignored while paused
stepSimulationWhenPlaying ==
    /\ particles' = IF isPlaying
                    THEN updateAll(particles, frameDt(timeScale), electricField,
                                   magneticField, trailLength)
                    ELSE particles
    /\ hist' = IF isPlaying THEN StepHist(particles') ELSE hist
    /\ simulationTime' = IF isPlaying THEN RAdd(simulationTime, frameDt(timeScale))
                         ELSE simulationTime
    /\ lastOp' = "stepSimulation"
    /\ UNCHANGED <<particleIdCounter, isPlaying, timeScale, trailLength,
                   electricField, magneticField, sceneFile, exportedState>>

stepSimulation ==
    /\ LET dt == frameDt(timeScale)
           ps == updateAll(particles, dt, electricField, magneticField, trailLength)
       IN  /\ particles' = ps
           /\ hist' = StepHist(ps)
           /\ simulationTime' = RAdd(simulationTime, dt)
    /\ lastOp' = "stepSimulation"
    /\ UNCHANGED <<particleIdCounter, isPlaying, timeScale, trailLength,
                   electricField, magneticField, sceneFile, exportedState>>

\* one frame of the p5 draw loop: the state it changes
draw ==
    IF isPlaying
    THEN /\ LET dt == frameDt(timeScale)
                ps == updateAll(particles, dt, electricField, magneticField, trailLength)
            IN  /\ particles' = ps
                /\ hist' = StepHist(ps)
                /\ simulationTime' = RAdd(simulationTime, dt)
              /\ lastOp' = "draw"
         /\ UNCHANGED <<particleIdCounter, isPlaying, timeScale, trailLength,
                        electricField, magneticField, sceneFile, exportedState>>
    ELSE /\ Keep("draw")
         /\ UNCHANGED <<particles, particleIdCounter, hist, simulationTime, isPlaying,
                        timeScale, trailLength, electricField, magneticField>>

setTimeScale(scale) ==
    /\ timeScale' = scale
    /\ Keep("setTimeScale")
    /\ UNCHANGED <<particles, particleIdCounter, hist, simulationTime, isPlaying,
                   trailLength, electricField, magneticField>>

\* history: a particle's record stays valid when trailLength keeps its value
\* or the particle has not stepped yet
RetuneHist(len) ==
    [i \in 1..Len(hist) |->
        [hist[i] EXCEPT !.fixed = @ /\ (len = trailLength \/ hist[i].pos = <<>>)]]

\* the value the trail-length slider passes to setTrailLength
sliderLength(value) == IF value = SLIDER_FULL THEN Inf ELSE R(value)

trailLengthSlider(value) ==
    /\ trailLength' = sliderLength(value)
    /\ hist' = RetuneHist(sliderLength(value))
    /\ Keep("setTrailLength")
    /\ UNCHANGED <<particles, particleIdCounter, simulationTime, isPlaying,
                   timeScale, electricField, magneticField>>

setElectricField(f) ==
    /\ electricField' = f
    /\ Keep("setElectricField")
    /\ UNCHANGED <<particles, particleIdCounter, hist, simulationTime, isPlaying,
                   timeScale, trailLength, magneticField>>

setMagneticField(f) ==
    /\ magneticField' = f
    /\ Keep("setMagneticField")
    /\ UNCHANGED <<particles, particleIdCounter, hist, simulationTime, isPlaying,
                   timeScale, trailLength, electricField>>

\* the Reset button and the r key
resetAllValues ==
    /\ electricField' = Field(Zero, 0)
    /\ magneticField' = Field(Zero, 90)
    /\ trailLength' = R(DEFAULT_TRAIL_LENGTH)
    /\ particles' = clearTrails(<<>>)
    /\ particleIdCounter' = 0
    /\ simulationTime' = Zero
    /\ hist' = <<>>
    /\ Keep("resetAllValues")
    /\ UNCHANGED <<isPlaying, timeScale>>

\* mousePressed at screen point (mx, my) with the measuring tool off: the first
\* particle closer than 0.3 to the click becomes the only selected one
\* (Math.sqrt(d2) < 0.3 is compared as d2 < 0.3 * 0.3)
isClicked(p, worldPos) ==
    LET dx == RSub(p.x, worldPos.x)
        dy == RSub(p.y, worldPos.y)
    IN  RLess(RAdd(RMul(dx, dx), RMul(dy, dy)), RMul(Frac(3, 10), Frac(3, 10)))

selectClicked(ps, worldPos) ==
    LET clicked == {i \in 1..Len(ps) : isClicked(ps[i], worldPos)}
    IN  IF clicked = {} THEN ps
        ELSE LET clickedParticle == CHOOSE i \in clicked : \A j \in clicked : i <= j
             IN  [i \in 1..Len(ps) |-> [ps[i] EXCEPT !.selected = (i = clickedParticle)]]

mousePressed(mx, my) ==
    /\ particles' = selectClicked(particles, screenToWorld(R(mx), R(my)))
    /\ Keep("mousePressed")
    /\ UNCHANGED <<particleIdCounter, hist, simulationTime, isPlaying, timeScale,
                   trailLength, electricField, magneticField>>

\* ------------------------------------------------------------------- api.js
\* the simulation state the scene operations read and write
CoreState ==
    [electricField |-> electricField, magneticField |-> magneticField,
     particles |-> particles, particleIdCounter |-> particleIdCounter,
     simulationTime |-> simulationTime, timeScale |-> timeScale,
     trailLength |-> trailLength]

\* mutant of applySamples: the first sample is taken for the state
applySamplesFirst(p, data) ==
    [p EXCEPT !.x = data.x[1], !.y = data.y[1], !.vx = data.vx[1], !.vy = data.vy[1],
              !.trail = [i \in 1..Len(data.x) |-> Point(data.x[i], data.y[i])]]

\* applySimulationResults: the particle a result entry is applied to, rewritten
applySamples(p, data) ==
    LET lastIndex == Len(data.x)
    IN  [p EXCEPT !.x = data.x[lastIndex], !.y = data.y[lastIndex],
                  !.vx = data.vx[lastIndex], !.vy = data.vy[lastIndex],
                  !.trail = [i \in 1..Len(data.x) |-> Point(data.x[i], data.y[i])]]

\* particles.find(p => p.id === particleId) is the first particle with that id
IsFound(ps, i, ids) ==
    /\ ps[i].id \in ids
    /\ \A j \in 1..(i - 1) : ps[j].id # ps[i].id

applyResultsTo(ps, results) ==
    IF ~results.hasData THEN ps
    ELSE [i \in 1..Len(ps) |->
            IF IsFound(ps, i, results.ids) THEN applySamples(ps[i], results.data[ps[i].id])
            ELSE ps[i]]

applySimulationResults(results) ==
    /\ particles' = applyResultsTo(particles, results)
    /\ hist' = [i \in 1..Len(particles) |->
                  IF results.hasData /\ IsFound(particles, i, results.ids)
                  THEN [hist[i] EXCEPT !.fixed = FALSE] ELSE hist[i]]
    /\ Keep("applySimulationResults")
    /\ lastResults' = <<results>>
    /\ UNCHANGED <<particleIdCounter, simulationTime, isPlaying, timeScale,
                   trailLength, electricField, magneticField>>

\* JSON.stringify writes a non-finite number as null; finite numbers survive
\* JSON.parse(JSON.stringify(x)) unchanged
JsonNum(a) == IF IsFinite(a) THEN a ELSE Null
JsonField(f) == Field(JsonNum(f.magnitude), f.angle_deg)

\* exportScene: the document JSON.parse would read back from the download
sceneOf(st) ==
    Scene(TRUE, TRUE, TRUE, JsonField(st.electricField), JsonField(st.magneticField),
          [i \in 1..Len(st.particles) |->
              LET p == st.particles[i]
              IN  PData(p.id, JsonNum(p.q), JsonNum(p.m), JsonNum(p.x), JsonNum(p.y),
                        JsonNum(p.vx), JsonNum(p.vy))],
          JsonNum(st.simulationTime), JsonNum(st.timeScale), JsonNum(st.trailLength))

exportScene ==
    /\ sceneFile' = <<sceneOf(CoreState)>>
    /\ exportedState' = <<CoreState>>
    /\ lastOp' = "exportScene"
    /\ UNCHANGED <<particles, particleIdCounter, hist, simulationTime, isPlaying,
                   timeScale, trailLength, electricField, magneticField>>

\* importScene's onload callback on a parsed document: the statements run in
\* order until one throws, and the catch block restores nothing
importInto(st, scene) ==
    IF ~scene.hasE THEN st
    ELSE LET s1 == [st EXCEPT !.electricField = scene.E]
         IN  IF ~scene.hasB THEN s1
             ELSE LET s2 == [s1 EXCEPT !.magneticField = scene.B,
                                       !.particles = <<>>,
                                       !.particleIdCounter = 0]
                  IN  IF ~scene.hasParticles THEN s2
                      ELSE [s2 EXCEPT
                              !.particles =
                                  [i \in 1..Len(scene.particles) |->
                                      LET d == scene.particles[i]
                                      IN  Particle(d.id, d.q, d.m, d.x, d.y, d.vx, d.vy)],
                              !.simulationTime = OrElse(scene.simulationTime, Zero),
                              !.timeScale = OrElse(scene.timeScale, One),
                              !.trailLength =
                                  OrElse(scene.trailLength, R(DEFAULT_TRAIL_LENGTH))]

importScene(scene) ==
    LET st == importInto(CoreState, scene)
    IN  /\ electricField' = st.electricField
        /\ magneticField' = st.magneticField
        /\ particles' = st.particles
        /\ particleIdCounter' = st.particleIdCounter
        /\ simulationTime' = st.simulationTime
        /\ timeScale' = st.timeScale
        /\ trailLength' = st.trailLength
        /\ hist' = IF scene.hasE /\ scene.hasB
                   THEN [i \in 1..Len(st.particles) |-> NewHist]
                   ELSE hist
        /\ lastOp' = IF scene.hasE /\ scene.hasB /\ scene.hasParticles
                     THEN "importScene" ELSE "importSceneFailed"
        /\ UNCHANGED <<isPlaying, sceneFile, exportedState>>

\* ----------------------------------------------------------- specifications
\* an operation of a run of at most MaxOps operations
\* an operation of the page other than the remote simulation: no request is
\* sent or answered
Local == lastResults' = <<>> /\ UNCHANGED pending

Step(A) == opCount < MaxOps /\ opCount' = opCount + 1 /\ A
Op(A) == Step(A /\ Local)

Next ==
    \/ Op(\E q \in Charges, m \in Masses, vx \in Velocities : addParticle(q, m, vx, Zero))
    \/ Op(\E q \in Charges, m \in BoxMasses, vx \in Velocities :
             addParticleClick(q, m, vx, Zero))
    \/ Op(clearParticles)
    \/ Op(resetSimulation)
    \/ Op(resetAllValues)
    \/ Op(togglePlayPause)
    \/ Op(stepSimulation)
    \/ Op(draw)
    \/ Op(\E scale \in InputTimeScale : setTimeScale(scale))
    \/ Op(\E value \in SliderValues : trailLengthSlider(value))
    \/ Op(\E f \in InputE : setElectricField(f))
    \/ Op(\E f \in InputB : setMagneticField(f))
    \/ Step(\E results \in InputResults :
               applySimulationResults(results) /\ UNCHANGED pending)
    \/ Op(\E scene \in InputScenes : importScene(scene))

Spec == Init /\ [][Next]_vars

\* the scene operations alone: a scene is exported and the download loaded back
importSceneFile ==
    /\ sceneFile # <<>>
    /\ importScene(sceneFile[1])

NextScene ==
    \/ Op(\E q \in Charges, m \in Masses, vx \in Velocities : addParticle(q, m, vx, Zero))
    \/ Op(clearParticles)
    \/ Op(stepSimulation)
    \/ Op(\E scale \in InputTimeScale : setTimeScale(scale))
    \/ Op(\E value \in SliderValues : trailLengthSlider(value))
    \/ Op(\E f \in InputE : setElectricField(f))
    \/ Op(\E f \in InputB : setMagneticField(f))
    \/ Op(exportScene)
    \/ Op(importSceneFile)

SpecScene == Init /\ [][NextScene]_vars

\* runLongSimulation up to its second await, the backend having answered the
\* health check: the particles are snapshotted and the request is sent. One
\* request is in flight at a time.
runLongSimulationSend ==
    /\ pending = <<>>
    /\ pending' = <<{particles[i].id : i \in 1..Len(particles)}>>
    /\ hist' = [i \in 1..Len(particles) |-> [hist[i] EXCEPT !.snapshot = TRUE]]
    /\ lastOp' = "runLongSimulation"
    /\ lastResults' = <<>>
    /\ UNCHANGED <<particles, particleIdCounter, simulationTime, isPlaying, timeScale,
                   trailLength, electricField, magneticField, sceneFile, exportedState>>

\* runLongSimulation resumed with the response: the results carry samples for
\* the ids of the snapshot and are applied to the collection as it is now
runLongSimulationResume ==
    /\ pending # <<>>
    /\ applySimulationResults(Results(pending[1]))
    /\ pending' = <<>>

\* runLongSimulation resumed after runSimulation caught an error and returned null
runLongSimulationFailed ==
    /\ pending # <<>>
    /\ pending' = <<>>
    /\ lastOp' = "runLongSimulationFailed"
    /\ lastResults' = <<>>
    /\ UNCHANGED <<particles, particleIdCounter, hist, simulationTime, isPlaying,
                   timeScale, trailLength, electricField, magneticField, sceneFile,
                   exportedState>>

\* the remote simulation and what the page may do while it is awaited
NextRemote ==
    \/ Op(\E q \in Charges, m \in Masses, vx \in Velocities : addParticle(q, m, vx, Zero))
    \/ Op(clearParticles)
    \/ Op(stepSimulation)
    \/ Op(importScene(SceneGood))
    \/ Step(runLongSimulationSend)
    \/ Step(runLongSimulationResume)
    \/ Step(runLongSimulationFailed)

SpecRemote == Init /\ [][NextRemote]_vars

\* selection and stepping: particles are added, clicked and stepped in an
\* electric field
NextSelect ==
    \/ Op(\E q \in Charges, m \in Masses, vx \in Velocities : addParticle(q, m, vx, Zero))
    \/ Op(\E click \in InputClicks : mousePressed(click[1], click[2]))
    \/ Op(stepSimulation)
    \/ Op(togglePlayPause)
    \/ Op(draw)
    \/ Op(\E f \in InputE : setElectricField(f))

SpecSelect == Init /\ [][NextSelect]_vars

\* the integrator on its own: the page has just loaded a scene document with
\* one particle at the origin, whose charge, mass and velocity, fields and time
\* scale are drawn (importScene checks none of them), and the particle is stepped
StepCharges == {R(1), R(-1)}
StepMasses == {R(1), R(2), R(0)}
StepVx == {R(1), Zero}
StepVy == {Zero, R(1)}
StepE == {Field(Zero, 0), Field(R(120), 0), Field(R(120), 90)}
StepB == {Field(Zero, 90), Field(R(120), 90), Field(R(120), 270)}
StepTimeScale == {R(1), R(2)}

StepScenes ==
    {Scene(TRUE, TRUE, TRUE, E, B, <<PData(0, q, m, Zero, Zero, vx, vy)>>, Null, ts, Null) :
        E \in StepE, B \in StepB, ts \in StepTimeScale,
        q \in StepCharges, m \in StepMasses, vx \in StepVx, vy \in StepVy}

\* the simulation state of a freshly loaded page
FreshState ==
    [electricField |-> Field(Zero, 0), magneticField |-> Field(Zero, 90),
     particles |-> <<>>, particleIdCounter |-> 0, simulationTime |-> Zero,
     timeScale |-> One, trailLength |-> R(DEFAULT_TRAIL_LENGTH)]

InitStep ==
    /\ \E scene \in StepScenes :
          LET st == importInto(FreshState, scene)
          IN  /\ electricField = st.electricField
              /\ magneticField = st.magneticField
              /\ particles = st.particles
              /\ particleIdCounter = st.particleIdCounter
              /\ simulationTime = st.simulationTime
              /\ timeScale = st.timeScale
              /\ trailLength = st.trailLength
    /\ isPlaying = FALSE
    /\ sceneFile = <<>>
    /\ exportedState = <<>>
    /\ lastOp = "init"
    /\ opCount = 0
    /\ hist = <<NewHist>>
    /\ pending = <<>>
    /\ lastResults = <<>>

OpStep(A) == opCount < MaxStepOps /\ opCount' = opCount + 1 /\ A /\ Local

NextStep ==
    \/ OpStep(stepSimulation)
    \/ OpStep(togglePlayPause)
    \/ OpStep(draw)
    \/ OpStep(\E scale \in StepTimeScale : setTimeScale(scale))

SpecStep == InitStep /\ [][NextStep]_vars

\* ------------------------------------------------------------------- claims
Indices == 1..Len(particles)
Stepped(op) == op \in {"draw", "stepSimulation"}

\* C1: whenever trailLength is finite, every particle's trail is at most
\* trailLength entries long.
TrailWithinLength ==
    IsFinite(trailLength) =>
        \A i \in Indices : ~RGreater(R(Len(particles[i].trail)), trailLength)

\* the last n entries of a sequence, in order
LastN(seq, n) == IF Len(seq) <= n THEN seq ELSE SubSeq(seq, Len(seq) - n + 1, Len(seq))

\* C2: a particle stepped N times from an empty trail under a fixed whole
\* trailLength L >= 0 holds the last min(N, L) post-step positions in
\* chronological order, and all N of them when trailLength is unbounded.
TrailHoldsMostRecent ==
    \A i \in Indices :
        hist[i].fixed =>
            /\ (IsFinite(trailLength) /\ trailLength[2] = 1 /\ trailLength[1] >= 0) =>
                   particles[i].trail = LastN(hist[i].pos, trailLength[1])
            /\ trailLength = Inf => particles[i].trail = hist[i].pos

\* C2 witness: a particle stepped more often than its finite trailLength holds
TrailEvicted ==
    \E i \in Indices :
        /\ hist[i].fixed
        /\ IsFinite(trailLength)
        /\ Len(hist[i].pos) > trailLength[1]
        /\ trailLength[1] >= 1
        /\ Stepped(lastOp)

\* C3: every particle in the collection has a mass above zero.
MassPositive == \A i \in Indices : RGreater(particles[i].m, Zero)

\* C4: an import that fails on a missing required field leaves the fields, the
\* particle collection, particleIdCounter, simulationTime, timeScale and
\* trailLength as they were.
FailedImportChangesNothing ==
    [][lastOp' = "importSceneFailed" => UNCHANGED CoreState]_vars

DtOf(ts) == RDiv(ts, R(60))

\* every particle stepped once with dt under the current fields, time advanced once
OneTick ==
    /\ Len(particles') = Len(particles)
    /\ \A i \in Indices :
          particles'[i] = update(particles[i], DtOf(timeScale), electricField,
                                 magneticField, trailLength)
    /\ simulationTime' = RAdd(simulationTime, DtOf(timeScale))

\* C6: a frame while playing steps every particle once with dt = timeScale/60
\* under the current fields and adds dt to simulationTime once; a frame while
\* paused changes no particle and not simulationTime.
FrameTicksOnlyWhilePlaying ==
    [][lastOp' = "draw" =>
          IF isPlaying THEN OneTick
          ELSE particles' = particles /\ simulationTime' = simulationTime]_vars

\* C6 witness: a frame has stepped two particles while playing
FrameSteppedTwo ==
    /\ lastOp = "draw"
    /\ isPlaying
    /\ Len(particles) >= 2
    /\ \A i \in Indices : particles[i].trail # <<>> /\ hist[i].pos # <<>>

\* C7: stepSimulation performs one tick of integration whether playing or
\* paused, and leaves isPlaying as it was.
StepOnceAlwaysTicks ==
    [][lastOp' = "stepSimulation" => OneTick /\ isPlaying' = isPlaying]_vars

\* C7 witness: a manual step has moved a particle while paused
SteppedWhilePaused ==
    /\ lastOp = "stepSimulation"
    /\ ~isPlaying
    /\ \E i \in Indices : hist[i].pos # <<>> /\ particles[i].x # Zero

\* what a reset must keep: membership, kinematics, charge, mass and the fields
ResetKeeps ==
    /\ Len(particles') = Len(particles)
    /\ \A i \in Indices :
          /\ particles'[i].trail = <<>>
          /\ [particles'[i] EXCEPT !.trail = particles[i].trail] = particles[i]
    /\ simulationTime' = Zero
    /\ UNCHANGED <<electricField, magneticField>>

\* C8 (as stated): every reset zeroes simulationTime, empties the trails and
\* keeps the particles and the fields.
EveryResetKeepsParticlesAndFields ==
    [][lastOp' \in {"resetSimulation", "resetAllValues"} => ResetKeeps]_vars

\* C8 (amended): resetSimulation zeroes simulationTime, empties every trail and
\* keeps the particles and the fields; resetAllValues, the Reset button and r
\* key, zeroes simulationTime, discards every particle, sets both field
\* magnitudes to 0 and trailLength to 200.
ResetSimulationKeepsParticlesAndFields ==
    [][/\ lastOp' = "resetSimulation" => ResetKeeps
       /\ lastOp' = "resetAllValues" =>
             /\ simulationTime' = Zero
             /\ particles' = <<>>
             /\ electricField' = Field(Zero, 0)
             /\ magneticField' = Field(Zero, 90)
             /\ trailLength' = R(200)]_vars

\* C8 witness: resetSimulation has emptied the trail of a particle that
\* addParticle spawned at the origin and that has moved since
ResetAfterMotion ==
    /\ lastOp = "resetSimulation"
    /\ Len(particles) = 1
    /\ particleIdCounter = 1
    /\ particles[1].x # Zero
    /\ particles[1].trail = <<>>
    /\ simulationTime = Zero

\* C9: no two particles in the collection have the same id.
UniqueIds ==
    \A i, j \in Indices : i # j => particles[i].id # particles[j].id

\* C10: after the exported document is imported, the fields, every particle's
\* id, q, m, x, y, vx, vy, and simulationTime, timeScale and trailLength equal
\* their values at export, and every particle's trail is empty.
RoundTripRestores ==
    lastOp = "importScene" =>
        LET was == exportedState[1]
        IN  /\ electricField = was.electricField
            /\ magneticField = was.magneticField
            /\ Len(particles) = Len(was.particles)
            /\ \A i \in Indices :
                  LET p == particles[i]
                      w == was.particles[i]
                  IN  /\ <<p.id, p.q, p.m, p.x, p.y, p.vx, p.vy>> =
                             <<w.id, w.q, w.m, w.x, w.y, w.vx, w.vy>>
                      /\ p.trail = <<>>
            /\ simulationTime = was.simulationTime
            /\ timeScale = was.timeScale
            /\ trailLength = was.trailLength

\* the field components the force law reads
ExOf(E) == RMul(E.magnitude, CosDeg(E.angle_deg))
EyOf(E) == RMul(E.magnitude, SinDeg(E.angle_deg))
BzOf(B) == IF B.angle_deg = 90 THEN B.magnitude ELSE RNeg(B.magnitude)

\* the acceleration F / m of the force law at velocity v = <<vx, vy>>
LawA(p, v) ==
    <<RDiv(RMul(p.q, RAdd(ExOf(electricField), RMul(v[2], BzOf(magneticField)))), p.m),
      RDiv(RMul(p.q, RSub(EyOf(electricField), RMul(v[1], BzOf(magneticField)))), p.m)>>

\* v + k * h, componentwise
Along(v, k, h) == <<RAdd(v[1], RMul(k[1], h)), RAdd(v[2], RMul(k[2], h))>>

\* (k1 + 2 k2 + 2 k3 + k4) / 6, componentwise
Blend(k1, k2, k3, k4) ==
    [c \in 1..2 |->
        RDiv(RAdd(RAdd(k1[c], RMul(R(2), k2[c])), RAdd(RMul(R(2), k3[c]), k4[c])), R(6))]

\* the velocity after one step of length dt, the stages handed down
Rk4V4(p, dt, k1, k2, k3) ==
    Along(<<p.vx, p.vy>>, Blend(k1, k2, k3, LawA(p, Along(<<p.vx, p.vy>>, k3, dt))), dt)
Rk4V3(p, dt, k1, k2) ==
    Rk4V4(p, dt, k1, k2, LawA(p, Along(<<p.vx, p.vy>>, k2, RDiv(dt, R(2)))))
Rk4V2(p, dt, k1) == Rk4V3(p, dt, k1, LawA(p, Along(<<p.vx, p.vy>>, k1, RDiv(dt, R(2)))))
Rk4V(p, dt) == Rk4V2(p, dt, LawA(p, <<p.vx, p.vy>>))

\* a transition in which the integrator ran over the collection
IntegratorRan == lastOp' = "stepSimulation" \/ (lastOp' = "draw" /\ isPlaying)

\* C11: one step sets the velocity to v0 + dt (k1 + 2 k2 + 2 k3 + k4) / 6, the
\* k being F / m of the force law at v0, v0 + k1 dt/2, v0 + k2 dt/2, v0 + k3 dt
\* with the particle's own charge and mass, and then the position to
\* x0 + (new velocity) dt.
StepIsVelocityRk4 ==
    [][IntegratorRan =>
          \A i \in Indices :
              /\ <<particles'[i].vx, particles'[i].vy>> =
                     Rk4V(particles[i], DtOf(timeScale))
              /\ particles'[i].x =
                     RAdd(particles[i].x, RMul(particles'[i].vx, DtOf(timeScale)))
              /\ particles'[i].y =
                     RAdd(particles[i].y, RMul(particles'[i].vy, DtOf(timeScale)))]_vars

\* C11 witness: a particle of charge -1 and mass 2 has been stepped under a
\* nonzero electric and magnetic field, and its velocity has changed twice
SteppedInBothFields ==
    /\ lastOp = "stepSimulation"
    /\ electricField.magnitude # Zero
    /\ magneticField.magnitude # Zero
    /\ particles[1].q = R(-1)
    /\ particles[1].m = R(2)
    /\ Len(hist[1].pos) = 2
    /\ IsFinite(particles[1].vx)
    /\ particles[1].vx \notin StepVx

\* ---- C12 ----

ZeroFields == electricField.magnitude = Zero /\ magneticField.magnitude = Zero

\* C12: with both field magnitudes zero, an integrator step leaves the velocity
\* of any particle unchanged and advances its position by velocity times dt, so
\* the particle moves with constant velocity.
ZeroFieldsMoveUniformly ==
    [][ZeroFields /\ IntegratorRan =>
          \A i \in Indices :
              LET p == particles[i]
                  dt == DtOf(timeScale)
              IN  /\ particles'[i].vx = p.vx
                  /\ particles'[i].vy = p.vy
                  /\ particles'[i].x = RAdd(p.x, RMul(p.vx, dt))
                  /\ particles'[i].y = RAdd(p.y, RMul(p.vy, dt))]_vars

\* ---- C13 ----

\* the particle particles.find returns for an id some particle carries
FirstWithId(id) ==
    CHOOSE i \in Indices :
        /\ particles[i].id = id
        /\ \A j \in 1..(i - 1) : particles[j].id # id

\* the particle carries the last sample as its state and all samples as its trail
CarriesSamples(p, d) ==
    /\ p.x = d.x[Len(d.x)]
    /\ p.y = d.y[Len(d.x)]
    /\ p.vx = d.vx[Len(d.x)]
    /\ p.vy = d.vy[Len(d.x)]
    /\ Len(p.trail) = Len(d.x)
    /\ \A k \in 1..Len(d.x) : p.trail[k].x = d.x[k] /\ p.trail[k].y = d.y[k]

\* C13: applySimulationResults gives the particle found for each id of the
\* results the last sample as position and velocity and the whole sample
\* sequence as trail; particles whose id is not in the results do not change,
\* ids that match no particle add or change nothing, and results that are
\* missing or carry no data change nothing.
ResultsAppliedToMatchingIds ==
    [][lastOp' = "applySimulationResults" =>
          LET results == lastResults'[1]
          IN  /\ Len(particles') = Len(particles)
              /\ ~results.hasData => particles' = particles
              /\ results.hasData =>
                    /\ \A id \in results.ids :
                          (\E i \in Indices : particles[i].id = id) =>
                              LET f == FirstWithId(id)
                              IN  /\ CarriesSamples(particles'[f], results.data[id])
                                  /\ particles'[f].id = id
                                  /\ particles'[f].q = particles[f].q
                                  /\ particles'[f].m = particles[f].m
                                  /\ particles'[f].selected = particles[f].selected
                    /\ \A i \in Indices :
                          particles[i].id \notin results.ids => particles'[i] = particles[i]
              /\ UNCHANGED <<particleIdCounter, simulationTime, isPlaying, timeScale,
                             trailLength, electricField, magneticField>>]_vars

\* results for p1 and p7 have met a collection holding a stepped p0 and p1
AppliedToSecondParticle ==
    /\ lastOp = "applySimulationResults"
    /\ lastResults = <<Results({1, 7})>>
    /\ Len(particles) = 2
    /\ particles[1].id = 0
    /\ Len(particles[1].trail) = 1
    /\ particles[2].id = 1
    /\ particles[2].x = R(4)
    /\ Len(particles[2].trail) = 3

\* ---- C14 ----

\* C14: a pass of the integrator changes, of each particle, only position,
\* velocity and trail: id, charge, mass and the selected flag stay, what a
\* particle becomes does not depend on the other particles, no particle is
\* added or removed, and the fields, timeScale, trailLength and isPlaying stay.
StepChangesOnlyMotion ==
    [][IntegratorRan =>
          /\ Len(particles') = Len(particles)
          /\ \A i \in Indices :
                /\ particles'[i].id = particles[i].id
                /\ particles'[i].q = particles[i].q
                /\ particles'[i].m = particles[i].m
                /\ particles'[i].selected = particles[i].selected
                /\ particles'[i] = updateAll(<<particles[i]>>, DtOf(timeScale), electricField,
                                             magneticField, trailLength)[1]
          /\ UNCHANGED <<electricField, magneticField, timeScale, trailLength, isPlaying>>]_vars

\* a selected particle and an unselected one have been stepped in an electric field
SteppedWhileSelected ==
    /\ lastOp = "stepSimulation"
    /\ Len(particles) = 2
    /\ particles[1].selected
    /\ ~particles[2].selected
    /\ electricField.magnitude # Zero
    /\ Len(particles[1].trail) = 1
    /\ Len(particles[2].trail) = 1
    /\ particles[2].vx # One

\* ---- C15 ----

\* C15: when the response of a remote simulation arrives, a particle that was
\* not in the snapshot sent with the request keeps its position, velocity and
\* trail.
ResultsReachOnlySnapshotParticles ==
    [][pending # <<>> /\ pending' = <<>> =>
          /\ Len(particles') = Len(particles)
          /\ \A i \in Indices :
                ~hist[i].snapshot =>
                    /\ particles'[i].x = particles[i].x
                    /\ particles'[i].y = particles[i].y
                    /\ particles'[i].vx = particles[i].vx
                    /\ particles'[i].vy = particles[i].vy
                    /\ particles'[i].trail = particles[i].trail]_vars

====
